---- MODULE Spec2Model ----
(***************************************************************************)
(* Model of src/src/types.rs of the Perun ICP canister: the channel        *)
(* parameter / state value types, multi-signature validation of a channel  *)
(* state (FullySignedState::validate, validate_final), registration of a   *)
(* state (RegisteredState::conclude, dispute, settled) and authorisation   *)
(* of a withdrawal (WithdrawalRequest::validate_sig).                      *)
(*                                                                         *)
(* Cryptography is idealised: a hash is collision free, and a signature    *)
(* verifies for exactly the key that made it and the bytes it was made     *)
(* over.  Timestamp and Duration are unsigned machine integers of          *)
(* TimestampBits bits (64 in the program, scaled down here).               *)
(***************************************************************************)
EXTENDS Integers, Sequences, FiniteSets, TLC

VARIABLES
    overflow_checks,  \* build profile: TRUE = overflow panics, FALSE = wraps
    registered,       \* the caller's stored RegisteredState, or None
    call,             \* the last call made and its arguments
    result            \* what that call returned

vars == <<overflow_checks, registered, call, result>>

----------------------------------------------------------------------------
(* Bounds of the model *)

TimestampBits == 2
MaxVersion == 1
MaxLen == 2

Modulus == 2 ^ TimestampBits
MaxTimestamp == Modulus - 1

(* u64 Timestamp / Duration / Version values *)
Timestamp == 0 .. MaxTimestamp
Duration == {0, 1, MaxTimestamp}
Version == 0 .. MaxVersion

(* L2Account public keys, nonces, L1 principals *)
L2Account == {"k1", "k2"}
Nonce == {"n1", "n2"}
L1Account == {"p1", "p2"}

SeqsUpTo(S, n) == UNION {[1 .. m -> S] : m \in 0 .. n}

----------------------------------------------------------------------------
(* Encodings, hash and signature primitives *)

(* Encode!(state): candid encoding, field order = declaration order *)
EncodeState(s) ==
    <<"State", s.channel, s.version, s.allocation, s.finalized>>

(* Encode!(params) *)
EncodeParams(p) ==
    <<"Params", p.nonce, p.participants, p.challenge_duration>>

(* a request encoding that leaves the receiver out *)
EncodeFundingOnly(w) ==
    <<"WithdrawalRequest", <<w.funding.channel, w.funding.participant>>>>

(* Encode!(withdrawal request) *)
EncodeWithdrawalRequest(w) ==
    <<"WithdrawalRequest", <<w.funding.channel, w.funding.participant>>,
      w.receiver>>

(* Hash::digest: SHA-512 of the message, idealised as collision free *)
digest(msg) == [sha512 |-> msg]

(* An L2Signature: made by the holder of key pk over the bytes msg *)
L2Signature(pk, msg) == [signer |-> pk, msg |-> msg]

(* PublicKey::verify_strict(&enc, &sig) *)
verify_strict(pk, enc, sig) == sig.signer = pk /\ sig.msg = enc

(* Params::id *)
id(params) == digest(EncodeParams(params))

----------------------------------------------------------------------------
(* State *)

(* State::validate_sig *)
State_validate_sig(state, sig, pk) ==
    IF verify_strict(pk, EncodeState(state), sig) THEN "Ok" ELSE "Authentication"

(* State::may_be_underfunded *)
may_be_underfunded(state) == state.version = 0 /\ ~state.finalized

----------------------------------------------------------------------------
(* FullySignedState *)

(* the loop of validate: participants in order, sigs[i] indexed (a panic  *)
(* when i is out of range), the first failing signature returned with ?    *)
RECURSIVE validate_loop(_, _, _)
validate_loop(f, params, i) ==
    IF i > Len(params.participants) THEN "Ok"
    ELSE IF i > Len(f.sigs) THEN "Panic"
    ELSE IF State_validate_sig(f.state, f.sigs[i], params.participants[i]) # "Ok"
         THEN State_validate_sig(f.state, f.sigs[i], params.participants[i])
    ELSE validate_loop(f, params, i + 1)

(* validate accepting any one valid signature in place (a quorum of one) *)
validate_any_sig(f, params) ==
    IF f.state.channel # id(params) THEN "InvalidInput"
    ELSE IF Len(f.sigs) # Len(params.participants) THEN "InvalidInput"
    ELSE IF Len(f.sigs) # Len(f.state.allocation) THEN "InvalidInput"
    ELSE IF \A i \in 1 .. Len(f.sigs) :
                State_validate_sig(f.state, f.sigs[i], params.participants[i]) # "Ok"
         THEN IF Len(f.sigs) = 0 THEN "Ok" ELSE "Authentication"
    ELSE "Ok"

(* validate checking the signatures before the lengths *)
validate_sigs_first(f, params) ==
    IF f.state.channel # id(params) THEN "InvalidInput"
    ELSE IF validate_loop(f, params, 1) # "Ok" THEN validate_loop(f, params, 1)
    ELSE IF Len(f.sigs) # Len(params.participants) THEN "InvalidInput"
    ELSE IF Len(f.sigs) # Len(f.state.allocation) THEN "InvalidInput"
    ELSE "Ok"

(* FullySignedState::validate *)
validate(f, params) ==
    IF f.state.channel # id(params) THEN "InvalidInput"
    ELSE IF Len(f.sigs) # Len(params.participants) THEN "InvalidInput"
    ELSE IF Len(f.sigs) # Len(f.state.allocation) THEN "InvalidInput"
    ELSE validate_loop(f, params, 1)

(* validate_final checking finalized only after validate *)
validate_final_late(f, params) ==
    IF validate(f, params) # "Ok" THEN validate(f, params)
    ELSE IF ~f.state.finalized THEN "NotFinalized"
    ELSE "Ok"

(* FullySignedState::validate_final *)
validate_final(f, params) ==
    IF ~f.state.finalized THEN "NotFinalized"
    ELSE validate(f, params)

----------------------------------------------------------------------------
(* Results: Ok(value) or Err(kind); a panic aborts the call *)

NoValue == [none |-> TRUE]
None == [none |-> TRUE]

Ok(v) == [kind |-> "Ok", value |-> v]
Err(e) == [kind |-> e, value |-> NoValue]
Panic == [kind |-> "Panic", value |-> NoValue]

(* now + params.challenge_duration on u64: exact when it fits; on overflow  *)
(* a panic in a build with overflow checks, the sum modulo 2^64 otherwise   *)
u64_add(a, b) ==
    IF a + b <= MaxTimestamp THEN Ok(a + b)
    ELSE IF overflow_checks THEN Panic
    ELSE Ok((a + b) % Modulus)

----------------------------------------------------------------------------
(* RegisteredState *)

(* conclude delegating to validate instead of validate_final *)
conclude_any_state(f, params) ==
    IF validate(f, params) # "Ok" THEN Err(validate(f, params))
    ELSE Ok([state |-> f.state, timeout |-> 0])

(* conclude answering a failed validation with a default record *)
conclude_or_default(f, params) ==
    IF validate_final(f, params) # "Ok"
    THEN Ok([state |-> [channel |-> digest(<<>>), version |-> 0,
                        allocation |-> <<>>, finalized |-> FALSE],
             timeout |-> 0])
    ELSE Ok([state |-> f.state, timeout |-> 0])

(* RegisteredState::conclude *)
conclude(f, params) ==
    IF validate_final(f, params) # "Ok" THEN Err(validate_final(f, params))
    ELSE Ok([state |-> f.state, timeout |-> 0])

(* RegisteredState::dispute *)
dispute(f, params, now) ==
    IF validate(f, params) # "Ok" THEN Err(validate(f, params))
    ELSE IF u64_add(now, params.challenge_duration).kind # "Ok" THEN Panic
    ELSE Ok([state |-> f.state,
             timeout |-> u64_add(now, params.challenge_duration).value])

(* settled looking at the timeout alone *)
settled_after_timeout(r, now) == now >= r.timeout

(* RegisteredState::settled *)
settled(r, now) == r.state.finalized \/ now >= r.timeout

----------------------------------------------------------------------------
(* WithdrawalRequest *)

(* WithdrawalRequest::validate_sig *)
WithdrawalRequest_validate_sig(w, sig) ==
    IF verify_strict(w.funding.participant, EncodeWithdrawalRequest(w), sig)
    THEN "Ok" ELSE "Authentication"

----------------------------------------------------------------------------
(* Inputs *)

Params == [nonce : Nonce,
           participants : SeqsUpTo(L2Account, MaxLen),
           challenge_duration : Duration]

OtherNonce(n) == CHOOSE m \in Nonce : m # n

(* the id of params, and the id of another channel *)
ChannelIdsFor(params) ==
    {id(params), id([params EXCEPT !.nonce = OtherNonce(@)])}

(* an allocation of n amounts *)
AllocationOf(n) == [i \in 1 .. n |-> 10 * i]

State(params) == [channel : ChannelIdsFor(params),
                  version : Version,
                  allocation : {AllocationOf(n) : n \in 0 .. MaxLen},
                  finalized : BOOLEAN]

(* a state other than s that a participant may have signed instead *)
Altered(s) == [s EXCEPT !.finalized = ~@]

(* who signed what: the origin of one signature presented with state s *)
Signer(s) == [signer : L2Account, state : {s, Altered(s)}]

(* the signatures made by the signers src, each over the state it signed *)
Signatures(src) ==
    [i \in 1 .. Len(src) |->
        L2Signature(src[i].signer, EncodeState(src[i].state))]

FullySignedState(s, src) == [state |-> s, sigs |-> Signatures(src)]

WithdrawalChannel ==
    {id(p) : p \in {q \in Params : /\ q.participants = <<"k1", "k2">>
                                   /\ q.challenge_duration = 1}}

WithdrawalRequest == [funding : [channel : WithdrawalChannel,
                                 participant : L2Account],
                      receiver : L1Account]

----------------------------------------------------------------------------
(* The validation functions applied to arbitrary inputs *)

Unit(kind) == [kind |-> kind, value |-> NoValue]
NoCall == [op |-> "none"]

Validate ==
    /\ call = NoCall
    /\ \E p \in Params : \E s \in State(p) :
       \E src \in SeqsUpTo(Signer(s), MaxLen) :
           LET f == FullySignedState(s, src) IN
           /\ call' = [op |-> "validate", f |-> f, params |-> p,
                       signed_by |-> src]
           /\ result' = Unit(validate(f, p))
           /\ UNCHANGED <<overflow_checks, registered>>

ValidateFinal ==
    /\ call = NoCall
    /\ \E p \in Params : \E s \in State(p) :
       \E src \in SeqsUpTo(Signer(s), MaxLen) :
           LET f == FullySignedState(s, src) IN
           /\ call' = [op |-> "validate_final", f |-> f, params |-> p,
                       signed_by |-> src]
           /\ result' = Unit(validate_final(f, p))
           /\ UNCHANGED <<overflow_checks, registered>>

WithdrawalValidateSig ==
    /\ call = NoCall
    /\ \E w \in WithdrawalRequest : \E k \in L2Account :
       \E signed \in WithdrawalRequest :
           LET sig == L2Signature(k, EncodeWithdrawalRequest(signed)) IN
           /\ call' = [op |-> "withdrawal_validate_sig", w |-> w, sig |-> sig,
                       signer |-> k, signed |-> signed]
           /\ result' = Unit(WithdrawalRequest_validate_sig(w, sig))
           /\ UNCHANGED <<overflow_checks, registered>>

InitValidation ==
    /\ overflow_checks = FALSE
    /\ registered = None
    /\ call = NoCall
    /\ result = Unit("none")

NextValidation == Validate \/ ValidateFinal \/ WithdrawalValidateSig

SpecValidation == InitValidation /\ [][NextValidation]_vars

----------------------------------------------------------------------------
(* The registry: a caller that keeps one RegisteredState and replaces it   *)
(* with the record a conclude or dispute call returns                      *)

RegistryParams ==
    {p \in Params : p.nonce = "n1" /\ p.participants = <<"k1", "k2">>}

(* every participant signs s, in participant order *)
Honest(s, params) ==
    [i \in 1 .. Len(params.participants) |->
        [signer |-> params.participants[i], state |-> s]]

(* the states of the channel of params that its participants may sign *)
ChannelState(params) ==
    [channel : {id(params)},
     version : Version,
     allocation : {AllocationOf(Len(params.participants))},
     finalized : BOOLEAN]

(* what a caller submits for state s: fully signed; the last signature     *)
(* missing; signatures over another state; the state of another channel    *)
Submission(s, params) ==
    LET other == [s EXCEPT !.channel =
                      id([params EXCEPT !.nonce = OtherNonce(@)])]
    IN  { [state |-> s, src |-> Honest(s, params)],
          [state |-> s,
           src |-> SubSeq(Honest(s, params), 1, Len(params.participants) - 1)],
          [state |-> s, src |-> Honest(Altered(s), params)],
          [state |-> other, src |-> Honest(other, params)] }

DisputeTime == {0, MaxTimestamp}

(* the caller's store: written only when the call returned Ok *)
Store(r) == IF r.kind = "Ok" THEN r.value ELSE registered

CallConclude ==
    \E p \in RegistryParams : \E s \in ChannelState(p) :
    \E x \in Submission(s, p) :
        LET f == FullySignedState(x.state, x.src)
            r == conclude(f, p)
        IN  /\ call' = [op |-> "conclude", f |-> f, params |-> p]
            /\ result' = r
            /\ registered' = Store(r)
            /\ UNCHANGED overflow_checks

CallDispute ==
    \E p \in RegistryParams : \E s \in ChannelState(p) :
    \E x \in Submission(s, p) : \E now \in DisputeTime :
        LET f == FullySignedState(x.state, x.src)
            r == dispute(f, p, now)
        IN  /\ call' = [op |-> "dispute", f |-> f, params |-> p, now |-> now]
            /\ result' = r
            /\ registered' = Store(r)
            /\ UNCHANGED overflow_checks

QuerySettled ==
    \E now \in Timestamp :
        /\ registered # None
        /\ call' = [op |-> "settled", now |-> now]
        /\ result' = Ok([settled |-> settled(registered, now)])
        /\ UNCHANGED <<overflow_checks, registered>>

Init ==
    /\ overflow_checks \in BOOLEAN
    /\ registered = None
    /\ call = NoCall
    /\ result = Unit("none")

Next == CallConclude \/ CallDispute \/ QuerySettled

Spec == Init /\ [][Next]_vars

----------------------------------------------------------------------------
(* Properties *)

ValidationError == {"InvalidInput", "Authentication", "NotFinalized"}

C2_ValidateErrorKinds ==
    call.op = "validate" =>
        LET f == call.f
            p == call.params
            structure == /\ f.state.channel = id(p)
                         /\ Len(f.sigs) = Len(p.participants)
                         /\ Len(f.sigs) = Len(f.state.allocation)
        IN  /\ result.kind # "Panic"
            /\ f.state.channel # id(p) => result.kind = "InvalidInput"
            /\ Len(f.sigs) # Len(p.participants) => result.kind = "InvalidInput"
            /\ Len(f.sigs) # Len(f.state.allocation) =>
                   result.kind = "InvalidInput"
            /\ (/\ structure
                /\ \E i \in 1 .. Len(p.participants) :
                      ~verify_strict(p.participants[i], EncodeState(f.state),
                                     f.sigs[i]))
                   => result.kind = "Authentication"

(* C2 witness: fewer signatures than participants, the first of them bad,  *)
(* answered InvalidInput                                                   *)
C2_Witness ==
    /\ call.op = "validate"
    /\ call.f.state.channel = id(call.params)
    /\ Len(call.f.sigs) = 1
    /\ Len(call.params.participants) = 2
    /\ ~verify_strict(call.params.participants[1],
                      EncodeState(call.f.state), call.f.sigs[1])
    /\ result.kind = "InvalidInput"

(* C3: validate_final returns Ok only for a finalized state that validate  *)
(* accepts, NotFinalized for every non-finalized state, and the result of  *)
(* validate for every finalized state.                                     *)
C3_ValidateFinal ==
    call.op = "validate_final" =>
        /\ result.kind = "Ok" =>
               /\ call.f.state.finalized
               /\ validate(call.f, call.params) = "Ok"
        /\ ~call.f.state.finalized => result.kind = "NotFinalized"
        /\ call.f.state.finalized =>
               result.kind = validate(call.f, call.params)

(* C3 witness: a validly signed, non-finalized state, answered NotFinalized *)
C3_Witness ==
    /\ call.op = "validate_final"
    /\ ~call.f.state.finalized
    /\ validate(call.f, call.params) = "Ok"
    /\ Len(call.f.sigs) = 2
    /\ result.kind = "NotFinalized"

(* C7: a withdrawal request validates when the signature was made by       *)
(* funding.participant over this exact request, and fails Authentication   *)
(* when made by another key or over a request differing in any field.      *)
C7_WithdrawalSignature ==
    call.op = "withdrawal_validate_sig" =>
        /\ (call.signer = call.w.funding.participant /\ call.signed = call.w)
               => result.kind = "Ok"
        /\ (call.signer # call.w.funding.participant \/ call.signed # call.w)
               => result.kind = "Authentication"

(* C7 witness: signed by the participant, the receiver changed afterwards  *)
C7_Witness ==
    /\ call.op = "withdrawal_validate_sig"
    /\ call.signer = call.w.funding.participant
    /\ call.signed.funding = call.w.funding
    /\ call.signed.receiver # call.w.receiver
    /\ result.kind = "Authentication"

(* C4: conclude succeeds exactly when validate_final succeeds; the record   *)
(* it returns carries the state unchanged with timeout 0 and is settled at *)
(* every timestamp, 0 included.                                            *)
C4_ConcludeSettled ==
    call.op = "conclude" =>
        /\ result.kind = "Ok" <=>
               validate_final(call.f, call.params) = "Ok"
        /\ result.kind = "Ok" =>
               /\ result.value.state = call.f.state
               /\ result.value.timeout = 0
               /\ \A now \in Timestamp : settled(result.value, now)

(* C4 witness: a conclude that succeeded and was stored, settled at 0 *)
C4_Witness ==
    /\ call.op = "conclude"
    /\ result.kind = "Ok"
    /\ registered = result.value
    /\ settled(registered, 0)

(* C5: dispute of a validly signed, non-finalized state at time t succeeds *)
(* with the state unchanged and timeout = t + challenge_duration; the      *)
(* record is settled exactly from that timeout on, so with a positive      *)
(* challenge_duration it is not settled at t.                              *)
C5_DisputeOpensWindow ==
    (/\ call.op = "dispute"
     /\ validate(call.f, call.params) = "Ok"
     /\ ~call.f.state.finalized)
    => /\ result.kind = "Ok"
       /\ result.value.state = call.f.state
       /\ result.value.timeout = call.now + call.params.challenge_duration
       /\ \A t \in Timestamp :
              settled(result.value, t) <=>
                  t >= call.now + call.params.challenge_duration
       /\ call.params.challenge_duration > 0 =>
              ~settled(result.value, call.now)

(* C6: settled(now) is true if and only if the state is finalized or       *)
(* now >= timeout: a finalized state is settled at every time, also when   *)
(* registered through dispute with a timeout still ahead; a non-finalized  *)
(* state is settled only from its timeout on.                              *)
C6_SettledIff ==
    /\ call.op = "settled" =>
           (result.value.settled <=>
               (registered.state.finalized \/ call.now >= registered.timeout))
    /\ (call.op = "dispute" /\ result.kind = "Ok") =>
           \A now \in Timestamp :
               settled(result.value, now) <=>
                   (call.f.state.finalized \/ now >= result.value.timeout)

(* C6 witness: a finalized state registered through dispute, asked before  *)
(* its timeout, answered settled                                           *)
C6_Witness ==
    /\ call.op = "settled"
    /\ registered.state.finalized
    /\ registered.timeout > call.now
    /\ result.value.settled

(* C8: a conclude or dispute whose validation fails returns only the error *)
(* (InvalidInput, Authentication or NotFinalized), no record, and the      *)
(* stored RegisteredState after the call is the one before it.             *)
C8_RejectedLeavesStore ==
    [][ ( \/ /\ call'.op = "conclude"
             /\ validate_final(call'.f, call'.params) # "Ok"
          \/ /\ call'.op = "dispute"
             /\ validate(call'.f, call'.params) # "Ok" )
        => /\ result'.kind \in ValidationError
           /\ result'.value = NoValue
           /\ registered' = registered ]_vars

(* C8 witness: a rejected call made while a record is stored *)
C8_Witness ==
    /\ registered # None
    /\ call.op \in {"conclude", "dispute"}
    /\ result.kind \in ValidationError

(* C9: a successful dispute returns timeout = now + challenge_duration as  *)
(* the exact sum, never a wrapped value below now.                         *)
C9_TimeoutExactSum ==
    (call.op = "dispute" /\ result.kind = "Ok") =>
        /\ result.value.timeout = call.now + call.params.challenge_duration
        /\ result.value.timeout >= call.now

(* C10: the result of conclude and dispute is a function of the arguments  *)
(* alone, whatever is stored; a dispute of a validly signed state succeeds *)
(* whatever its version, also below or at the version stored before.       *)
C10_NoVersionCheck ==
    /\ call.op = "conclude" => result = conclude(call.f, call.params)
    /\ call.op = "dispute" =>
           result = dispute(call.f, call.params, call.now)
    /\ (call.op = "dispute" /\ validate(call.f, call.params) = "Ok") =>
           result.kind = "Ok"

====
